---- MODULE Spec2Model ----
(***************************************************************************)
(* The Event aggregate of eventara-backend: the Express handlers of        *)
(* src/index.js acting on the mongoose model of src/unnamed/part_000       *)
(* (models/Event).  Every handler is split at its awaits on the database:  *)
(* the step that reads (findById / findOne) and the step that writes       *)
(* (save / findByIdAndUpdate).  What a handler decides between two awaits  *)
(* is decided on the document it fetched, inside the step that fetched it. *)
(*                                                                         *)
(* document.save() is mongoose's: it sends the delta of the paths the      *)
(* handler modified ($push for an array push, $pull for a sub-document     *)
(* remove, $set for an assignment), filtered by _id, and by the version    *)
(* key __v only when the delta depends on array positions ($set of a whole *)
(* array, $set below an array index).                                      *)
(***************************************************************************)
EXTENDS Integers, Sequences, FiniteSets, Bags, TLC

VARIABLES
  events,    \* the Event collection: the persisted documents
  inflight,  \* bag of handlers between their read and their write, each with the
             \* document it fetched, the time it fetched it and its request
  now,       \* Date.now()
  nextId,    \* the _id the next created Event gets
  nextSid,   \* the _id the next created Session gets
  resp,      \* the response the last step sent, NoResp if it sent none
  limit      \* how many handlers may be in flight at once

vars == <<events, inflight, now, nextId, nextSid, resp, limit>>

----------------------------------------------------------------------------
(* Bounds of the model.  MaxVersion caps __v and MaxSid the Session ids, in  *)
(* the guards of the steps that raise them; MaxEvents caps the Events ever  *)
(* created.  One Event is followed at a time (a creation waits for an empty *)
(* collection): every handler addresses a single document.                  *)

MaxClock == 1
MaxInFlight == 2
MaxCap == 2
MaxVersion == 3
MaxEvents == 1
MaxSid == 2

Users == {"org1", "userA", "userB"}
Dates == 0..MaxClock
EventIds == 1..MaxEvents
SessionIds == 1..MaxSid

----------------------------------------------------------------------------
(* Responses: res.status(..).json(..), with the request they answer.  count *)
(* is the "participants" number of the join and leave bodies, -1 where the *)
(* body carries none.                                                      *)

NoResp ==
  [op |-> "none", caller |-> "", target |-> 0, status |-> 0, error |-> "", count |-> -1]

\* target is the :id (or :eventId) of the request's path
Reply(op, caller, target, status, error, count) ==
  [op |-> op, caller |-> caller, target |-> target, status |-> status, error |-> error,
   count |-> count]

Request(op, caller, doc, sid, body) ==
  [op |-> op, caller |-> caller, doc |-> doc, at |-> now, sid |-> sid, body |-> body]

NoBody == [f \in {} |-> 0]

----------------------------------------------------------------------------
(* The collection *)

findById(id) == {e \in events : e._id = id}

\* a filter that never looks at the version: every save lands
MatchingByIdAlone(id, version, checkVersion) ==
  {e \in events : e._id = id}

\* updateOne(where, delta) of save(): the documents the filter matches
Matching(id, version, checkVersion) ==
  {e \in events : e._id = id /\ (checkVersion => e.__v = version)}

Replace(old, new) == (events \ {old}) \cup {new}

----------------------------------------------------------------------------
(* POST /api/events: Joi validation, then new Event(..).save() *)

Has(body, f) == f \in DOMAIN body

\* Joi's sessions item schema: the paths (by item index) that fail
SessionErrors(s, i) ==
  {<<"sessions", i, "title">> : x \in {1} \cap (IF Has(s, "title") /\ s.title # "" THEN {} ELSE {1})}
  \cup {<<"sessions", i, "startTime">> : x \in {1} \cap (IF Has(s, "startTime") THEN {} ELSE {1})}
  \cup {<<"sessions", i, "endTime">> : x \in {1} \cap
          (IF Has(s, "endTime") /\ (Has(s, "startTime") => s.endTime >= s.startTime)
           THEN {} ELSE {1})}

\* eventSchema.validate(req.body, {abortEarly: false, ...}): every failing path
EventErrors(body) ==
  {<<"title">> : x \in {1} \cap (IF Has(body, "title") /\ body.title # "" THEN {} ELSE {1})}
  \cup {<<"startDate">> : x \in {1} \cap (IF Has(body, "startDate") THEN {} ELSE {1})}
  \cup {<<"endDate">> : x \in {1} \cap
          (IF Has(body, "endDate") /\ (Has(body, "startDate") => body.endDate >= body.startDate)
           THEN {} ELSE {1})}
  \cup {<<"capacity">> : x \in {1} \cap
          (IF Has(body, "capacity") /\ body.capacity < 0 THEN {1} ELSE {})}
  \cup (IF Has(body, "sessions")
        THEN UNION {SessionErrors(body.sessions[i], i) : i \in 1..Len(body.sessions)}
        ELSE {})

\* the embedded sessions of the validated value, with the _id mongoose gives each
NewSessions(body, sid) ==
  IF Has(body, "sessions")
  THEN [i \in 1..Len(body.sessions) |->
          [_id |-> sid + i - 1,
           title |-> body.sessions[i].title,
           startTime |-> body.sessions[i].startTime,
           endTime |-> body.sessions[i].endTime]]
  ELSE <<>>

\* new Event({...}) of the validated value (stripUnknown: organizerId and
\* participants of the body are dropped), saved: timestamps by default and pre('save')
NewEvent(id, caller, body, sid, t) ==
  [_id |-> id,
   title |-> body.title,
   startDate |-> body.startDate,
   endDate |-> body.endDate,
   capacity |-> IF Has(body, "capacity") THEN body.capacity ELSE 0,
   organizerId |-> caller,
   sessions |-> NewSessions(body, sid),
   participants |-> <<>>,
   createdAt |-> t,
   updatedAt |-> t,
   __v |-> 0]

NumSessions(body) == IF Has(body, "sessions") THEN Len(body.sessions) ELSE 0

CreateEvent(bodies) ==
  \E caller \in Users, body \in bodies :
    /\ BagCardinality(inflight) < limit
    /\ events = {}
    /\ nextId <= MaxEvents
    /\ IF EventErrors(body) # {}
       THEN /\ resp' = Reply("createEvent", caller, 0, 400, "Validation failed", -1)
            /\ UNCHANGED <<events, nextId, nextSid>>
       ELSE /\ nextSid + NumSessions(body) - 1 <= MaxSid
            /\ events' = events \cup {NewEvent(nextId, caller, body, nextSid, now)}
            /\ nextId' = nextId + 1
            /\ nextSid' = nextSid + NumSessions(body)
            /\ resp' = Reply("createEvent", caller, 0, 201, "", -1)
    /\ UNCHANGED <<inflight, now, limit>>

----------------------------------------------------------------------------
(* POST /api/events/:id/join *)

alreadyJoined(event, caller) ==
  \E i \in 1..Len(event.participants) : event.participants[i].userId = caller

\* a capacity check that is off by one
isFullOffByOne(event) == Len(event.participants) > event.capacity

\* the capacity check of the handler
isFull(event) == Len(event.participants) >= event.capacity

\* the sub-document participants.push() builds: registeredAt by default Date.now
NewParticipant(caller, t) == [userId |-> caller, registeredAt |-> t]

\* the two checks in the other order
JoinCheckCapacityFirst(event, caller) ==
  IF isFull(event) THEN "Event is full"
  ELSE IF alreadyJoined(event, caller) THEN "Already joined this event"
  ELSE ""

\* the two checks of the handler, in its order: the error it answers, "" for none
JoinCheck(event, caller) ==
  IF alreadyJoined(event, caller) THEN "Already joined this event"
  ELSE IF isFull(event) THEN "Event is full"
  ELSE ""

JoinFetch ==
  \E caller \in Users, id \in EventIds :
    /\ BagCardinality(inflight) < limit
    /\ IF findById(id) = {}
       THEN /\ resp' = Reply("join", caller, id, 404, "Event not found", -1)
            /\ UNCHANGED inflight
       ELSE LET event == CHOOSE e \in findById(id) : TRUE IN
            IF JoinCheck(event, caller) # ""
            THEN /\ resp' = Reply("join", caller, id, 400, JoinCheck(event, caller), -1)
                 /\ UNCHANGED inflight
            ELSE /\ inflight' = inflight (+) SetToBag({Request("join", caller, event, 0, NoBody)})
                 /\ resp' = NoResp
    /\ UNCHANGED <<events, now, nextId, nextSid, limit>>

\* a push at the front: the new Participant goes before the others
JoinWritePrepends(d, r) ==
  [d EXCEPT !.participants = <<NewParticipant(r.caller, r.at)>> \o @,
            !.updatedAt = now,
            !.__v = @ + 1]

\* event.save() after participants.push(): $push, $set updatedAt, $inc __v, by _id alone
JoinWrite(d, r) ==
  [d EXCEPT !.participants = Append(@, NewParticipant(r.caller, r.at)),
            !.updatedAt = now,
            !.__v = @ + 1]

JoinSave ==
  \E r \in BagToSet(inflight) :
    /\ r.op = "join"
    /\ inflight' = inflight (-) SetToBag({r})
    /\ IF Matching(r.doc._id, 0, FALSE) = {}
       THEN /\ resp' = Reply("join", r.caller, r.doc._id, 500, "Failed to join event", -1)
            /\ UNCHANGED events
       ELSE LET d == CHOOSE e \in Matching(r.doc._id, 0, FALSE) : TRUE IN
            /\ d.__v < MaxVersion
            /\ events' = Replace(d, JoinWrite(d, r))
            /\ resp' = Reply("join", r.caller, r.doc._id, 200, "", Len(r.doc.participants) + 1)
    /\ UNCHANGED <<now, nextId, nextSid, limit>>

----------------------------------------------------------------------------
(* POST /api/events/:id/leave *)

\* a filter with the comparison inverted: it keeps the caller's entries
RemainingOfCaller(event, caller) ==
  SelectSeq(event.participants, LAMBDA p : p.userId = caller)

\* event.participants.filter(p => p.userId !== req.auth.userId)
Remaining(event, caller) ==
  SelectSeq(event.participants, LAMBDA p : p.userId # caller)

LeaveFetch ==
  \E caller \in Users, id \in EventIds :
    /\ BagCardinality(inflight) < limit
    /\ IF findById(id) = {}
       THEN /\ resp' = Reply("leave", caller, id, 404, "Event not found", -1)
            /\ UNCHANGED inflight
       ELSE LET event == CHOOSE e \in findById(id) : TRUE IN
            /\ inflight' = inflight (+) SetToBag({Request("leave", caller, event, 0, NoBody)})
            /\ resp' = NoResp
    /\ UNCHANGED <<events, now, nextId, nextSid, limit>>

\* a save that drops the filtered array: the roster stays as persisted
LeaveWriteKeepsRoster(d, r) ==
  [d EXCEPT !.updatedAt = now, !.__v = @ + 1]

\* event.save() after participants was assigned: the whole array is $set and
\* the update is filtered by the fetched __v, which it increments
LeaveWrite(d, r) ==
  [d EXCEPT !.participants = Remaining(r.doc, r.caller),
            !.updatedAt = now,
            !.__v = @ + 1]

\* an assignment of an equal array modifies nothing: only pre('save') writes
TouchWrite(d) == [d EXCEPT !.updatedAt = now]

LeaveSave ==
  \E r \in BagToSet(inflight) :
    /\ r.op = "leave"
    /\ inflight' = inflight (-) SetToBag({r})
    /\ LET changed == Remaining(r.doc, r.caller) # r.doc.participants
           hit == Matching(r.doc._id, r.doc.__v, changed)
       IN  IF ~changed /\ now = r.doc.updatedAt
           THEN /\ resp' = Reply("leave", r.caller, r.doc._id, 200, "", Len(r.doc.participants))
                /\ UNCHANGED events
           ELSE IF hit = {}
           THEN /\ resp' = Reply("leave", r.caller, r.doc._id, 500, "Failed to leave event", -1)
                /\ UNCHANGED events
           ELSE LET d == CHOOSE e \in hit : TRUE IN
                /\ changed => d.__v < MaxVersion
                /\ events' = Replace(d, IF changed THEN LeaveWrite(d, r) ELSE TouchWrite(d))
                /\ resp' = Reply("leave", r.caller, r.doc._id, 200, "", Len(Remaining(r.doc, r.caller)))
    /\ UNCHANGED <<now, nextId, nextSid, limit>>

----------------------------------------------------------------------------
(* PUT /api/events/:id: an ownership lookup, then findByIdAndUpdate of the *)
(* raw request body                                                        *)

\* Event.findOne({_id, organizerId: req.auth.userId})
findOwned(id, caller) == {e \in events : e._id = id /\ e.organizerId = caller}

\* runValidators: the required paths of the schema refuse an empty value
PatchInvalid(patch) ==
  \/ Has(patch, "title") /\ patch.title = ""
  \/ Has(patch, "organizerId") /\ patch.organizerId = ""

\* {...req.body, updatedAt: Date.now()} as a $set: every path the body names
UpdateWrite(d, patch) ==
  [f \in DOMAIN d |->
     IF f = "updatedAt" THEN now
     ELSE IF Has(patch, f) THEN patch[f]
     ELSE d[f]]

UpdateFetch(patches) ==
  \E caller \in Users, id \in EventIds, patch \in patches :
    /\ BagCardinality(inflight) < limit
    /\ IF findOwned(id, caller) = {}
       THEN /\ resp' = Reply("updateEvent", caller, id, 404, "Event not found or not authorized", -1)
            /\ UNCHANGED inflight
       ELSE LET event == CHOOSE e \in findOwned(id, caller) : TRUE IN
            /\ inflight' = inflight (+) SetToBag({Request("updateEvent", caller, event, 0, patch)})
            /\ resp' = NoResp
    /\ UNCHANGED <<events, now, nextId, nextSid, limit>>

UpdateSave ==
  \E r \in BagToSet(inflight) :
    /\ r.op = "updateEvent"
    /\ inflight' = inflight (-) SetToBag({r})
    /\ IF PatchInvalid(r.body)
       THEN /\ resp' = Reply("updateEvent", r.caller, r.doc._id, 500, "Failed to update event", -1)
            /\ UNCHANGED events
       ELSE IF findById(r.doc._id) = {}
       THEN /\ resp' = Reply("updateEvent", r.caller, r.doc._id, 200, "", -1)
            /\ UNCHANGED events
       ELSE LET d == CHOOSE e \in findById(r.doc._id) : TRUE IN
            /\ events' = Replace(d, UpdateWrite(d, r.body))
            /\ resp' = Reply("updateEvent", r.caller, r.doc._id, 200, "", -1)
    /\ UNCHANGED <<now, nextId, nextSid, limit>>

----------------------------------------------------------------------------
(* DELETE /api/events/:id: findByIdAndDelete *)

\* the documents the delete removes
Deleted(id, caller) == findById(id)

DeleteEvent ==
  \E caller \in Users, id \in EventIds :
    /\ BagCardinality(inflight) < limit
    /\ IF Deleted(id, caller) = {}
       THEN /\ resp' = Reply("deleteEvent", caller, id, 404, "Event not found", -1)
            /\ UNCHANGED events
       ELSE /\ events' = events \ Deleted(id, caller)
            /\ resp' = Reply("deleteEvent", caller, id, 200, "", -1)
    /\ UNCHANGED <<inflight, now, nextId, nextSid, limit>>

----------------------------------------------------------------------------
(* POST /api/events/:eventId/sessions *)

\* sessionSchema on save: title required, the two Dates required and castable
SessionInvalid(s) ==
  \/ ~Has(s, "title") \/ s.title = ""
  \/ ~Has(s, "startTime")
  \/ ~Has(s, "endTime")

\* the sub-document sessions.push(newSession) builds
NewSession(sid, body) ==
  [_id |-> sid, title |-> body.title, startTime |-> body.startTime, endTime |-> body.endTime]

AddSessionFetch(bodies) ==
  \E caller \in Users, id \in EventIds, body \in bodies :
    /\ BagCardinality(inflight) < limit
    /\ IF findById(id) = {}
       THEN /\ resp' = Reply("addSession", caller, id, 404, "Event not found", -1)
            /\ UNCHANGED <<inflight, nextSid>>
       ELSE LET event == CHOOSE e \in findById(id) : TRUE IN
            IF event.organizerId # caller
            THEN /\ resp' = Reply("addSession", caller, id, 403, "Not authorized to modify this event", -1)
                 /\ UNCHANGED <<inflight, nextSid>>
            ELSE /\ nextSid <= MaxSid
                 /\ inflight' = inflight (+) SetToBag({Request("addSession", caller, event, nextSid, body)})
                 /\ nextSid' = nextSid + 1
                 /\ resp' = NoResp
    /\ UNCHANGED <<events, now, nextId, limit>>

\* event.save() after sessions.push(): $push, $set updatedAt, $inc __v, by _id alone
AddSessionWrite(d, r) ==
  [d EXCEPT !.sessions = Append(@, NewSession(r.sid, r.body)),
            !.updatedAt = now,
            !.__v = @ + 1]

AddSessionSave ==
  \E r \in BagToSet(inflight) :
    /\ r.op = "addSession"
    /\ inflight' = inflight (-) SetToBag({r})
    /\ IF SessionInvalid(r.body) \/ Matching(r.doc._id, 0, FALSE) = {}
       THEN /\ resp' = Reply("addSession", r.caller, r.doc._id, 500, "Failed to create session", -1)
            /\ UNCHANGED events
       ELSE LET d == CHOOSE e \in Matching(r.doc._id, 0, FALSE) : TRUE IN
            /\ d.__v < MaxVersion
            /\ events' = Replace(d, AddSessionWrite(d, r))
            /\ resp' = Reply("addSession", r.caller, r.doc._id, 201, "", -1)
    /\ UNCHANGED <<now, nextId, nextSid, limit>>

----------------------------------------------------------------------------
(* PUT /api/sessions/:id and DELETE /api/sessions/:id *)

HasSession(e, sid) == \E i \in 1..Len(e.sessions) : e.sessions[i]._id = sid

\* Event.findOne({'sessions._id': req.params.id, organizerId: req.auth.userId})
findSessionOwned(sid, caller) ==
  {e \in events : HasSession(e, sid) /\ e.organizerId = caller}

\* event.sessions.id(sid): the position of the first sub-document with that _id
SessionIndex(e, sid) ==
  CHOOSE i \in 1..Len(e.sessions) :
    /\ e.sessions[i]._id = sid
    /\ \A j \in 1..(i - 1) : e.sessions[j]._id # sid

\* Object.assign(session, updateData): every key of the body but eventId
Assigned(session, body) ==
  [f \in DOMAIN session |-> IF Has(body, f) THEN body[f] ELSE session[f]]

UpdateSessionFetch(patches) ==
  \E caller \in Users, sid \in SessionIds, patch \in patches :
    /\ BagCardinality(inflight) < limit
    /\ IF findSessionOwned(sid, caller) = {}
       THEN /\ resp' = Reply("updateSession", caller, sid, 404, "Session not found or not authorized", -1)
            /\ UNCHANGED inflight
       ELSE LET event == CHOOSE e \in findSessionOwned(sid, caller) : TRUE IN
            /\ inflight' = inflight (+) SetToBag({Request("updateSession", caller, event, sid, patch)})
            /\ resp' = NoResp
    /\ UNCHANGED <<events, now, nextId, nextSid, limit>>

\* event.save() after Object.assign: $set of sessions.<i>.<field> for the fields
\* that changed, filtered by the fetched __v, which it leaves as it is
UpdateSessionWrite(d, r) ==
  LET i == SessionIndex(r.doc, r.sid) IN
  [d EXCEPT !.sessions[i] = Assigned(r.doc.sessions[i], r.body),
            !.updatedAt = now]

UpdateSessionSave ==
  \E r \in BagToSet(inflight) :
    /\ r.op = "updateSession"
    /\ inflight' = inflight (-) SetToBag({r})
    /\ LET i == SessionIndex(r.doc, r.sid)
           merged == Assigned(r.doc.sessions[i], r.body)
           changed == merged # r.doc.sessions[i]
           hit == Matching(r.doc._id, r.doc.__v, changed)
       IN  IF SessionInvalid(merged)
           THEN /\ resp' = Reply("updateSession", r.caller, r.sid, 500, "Failed to update session", -1)
                /\ UNCHANGED events
           ELSE IF ~changed /\ now = r.doc.updatedAt
           THEN /\ resp' = Reply("updateSession", r.caller, r.sid, 200, "", -1)
                /\ UNCHANGED events
           ELSE IF hit = {}
           THEN /\ resp' = Reply("updateSession", r.caller, r.sid, 500, "Failed to update session", -1)
                /\ UNCHANGED events
           ELSE LET d == CHOOSE e \in hit : TRUE IN
                /\ events' = Replace(d, IF changed THEN UpdateSessionWrite(d, r) ELSE TouchWrite(d))
                /\ resp' = Reply("updateSession", r.caller, r.sid, 200, "", -1)
    /\ UNCHANGED <<now, nextId, nextSid, limit>>

RemoveSessionFetch ==
  \E caller \in Users, sid \in SessionIds :
    /\ BagCardinality(inflight) < limit
    /\ IF findSessionOwned(sid, caller) = {}
       THEN /\ resp' = Reply("removeSession", caller, sid, 404, "Session not found or not authorized", -1)
            /\ UNCHANGED inflight
       ELSE LET event == CHOOSE e \in findSessionOwned(sid, caller) : TRUE IN
            /\ inflight' = inflight (+) SetToBag({Request("removeSession", caller, event, sid, NoBody)})
            /\ resp' = NoResp
    /\ UNCHANGED <<events, now, nextId, nextSid, limit>>

\* a removal by position: the first Session goes, whichever was named
RemoveSessionWriteFirst(d, r) ==
  [d EXCEPT !.sessions = Tail(@),
            !.updatedAt = now,
            !.__v = @ + 1]

\* event.save() after sessions.id(sid).remove(): $pull by _id, $set updatedAt,
\* $inc __v, by _id alone
RemoveSessionWrite(d, r) ==
  [d EXCEPT !.sessions = SelectSeq(@, LAMBDA s : s._id # r.sid),
            !.updatedAt = now,
            !.__v = @ + 1]

RemoveSessionSave ==
  \E r \in BagToSet(inflight) :
    /\ r.op = "removeSession"
    /\ inflight' = inflight (-) SetToBag({r})
    /\ IF Matching(r.doc._id, 0, FALSE) = {}
       THEN /\ resp' = Reply("removeSession", r.caller, r.sid, 500, "Failed to delete session", -1)
            /\ UNCHANGED events
       ELSE LET d == CHOOSE e \in Matching(r.doc._id, 0, FALSE) : TRUE IN
            /\ d.__v < MaxVersion
            /\ events' = Replace(d, RemoveSessionWrite(d, r))
            /\ resp' = Reply("removeSession", r.caller, r.sid, 200, "", -1)
    /\ UNCHANGED <<now, nextId, nextSid, limit>>

----------------------------------------------------------------------------
(* Date.now(): a clock that never runs backwards *)

Tick ==
  /\ now < MaxClock
  /\ now' = now + 1
  /\ resp' = NoResp
  /\ UNCHANGED <<events, inflight, nextId, nextSid, limit>>

----------------------------------------------------------------------------
(* Request bodies *)

\* bodies of POST /api/events that differ in capacity only
JoinBodies ==
  {[title |-> "Conf", startDate |-> 0, endDate |-> 0, capacity |-> c] : c \in 0..MaxCap}
  \cup {[title |-> "Conf", startDate |-> 0, endDate |-> 0]}

\* bodies of POST /api/events/:eventId/sessions, and items of a creation's sessions
SessionInputs ==
  {[title |-> t, startTime |-> a, endTime |-> b] : t \in {"S1", "S2"}, a \in Dates, b \in Dates}
  \cup {[startTime |-> 0, endTime |-> 0]}

\* bodies of POST /api/events with dates and fields the schema does not list
\* (organizerId, participants)
EventBodies ==
  {[title |-> "Conf", startDate |-> a, endDate |-> b] : a \in Dates, b \in Dates}
  \cup {[title |-> "", startDate |-> 1, endDate |-> 0],
        [title |-> "Conf", startDate |-> 0, endDate |-> 0, capacity |-> -1],
        [title |-> "Conf", startDate |-> 0, endDate |-> 0, organizerId |-> "userA",
         participants |-> <<NewParticipant("userA", 0)>>]}

\* bodies of POST /api/events with embedded sessions
SessionBodies ==
  {[title |-> "Conf", startDate |-> 0, endDate |-> 0]}
  \cup {[title |-> "Conf", startDate |-> 0, endDate |-> 0, sessions |-> <<s>>] : s \in SessionInputs}

\* bodies of POST /api/events with a capacity and one embedded session
FrameBodies ==
  {[title |-> "Conf", startDate |-> 0, endDate |-> 1, capacity |-> c,
    sessions |-> <<[title |-> "S1", startTime |-> 0, endTime |-> 1]>>] : c \in 1..MaxCap}

\* bodies of PUT /api/events/:id that touch capacity or the roster
CapPatches ==
  {[capacity |-> c] : c \in 0..MaxCap}
  \cup {[participants |-> <<NewParticipant(u, 0), NewParticipant(v, 0)>>] : u \in Users, v \in Users}

\* bodies of PUT /api/events/:id that touch ownership, dates and timestamps
OrgPatches ==
  {[organizerId |-> u] : u \in Users \cup {""}}
  \cup {[startDate |-> a] : a \in Dates}
  \cup {[endDate |-> a] : a \in Dates}
  \cup {[createdAt |-> a, updatedAt |-> a] : a \in Dates}
  \cup {[title |-> "Expo"]}

\* bodies of PUT /api/sessions/:id
SessionPatches ==
  {[startTime |-> a] : a \in Dates}
  \cup {[endTime |-> a] : a \in Dates}
  \cup {[eventId |-> 1, title |-> t] : t \in {"S2", ""}}
  \cup {[_id |-> i] : i \in SessionIds}

Init0 ==
  /\ events = {}
  /\ inflight = EmptyBag
  /\ now = 0
  /\ nextId = 1
  /\ nextSid = 1
  /\ resp = NoResp

\* requests overlap: up to MaxInFlight handlers between their read and their write
Init == Init0 /\ limit = MaxInFlight

\* requests run one at a time
InitSeq == Init0 /\ limit = 1

NextJoin ==
  \/ CreateEvent(JoinBodies)
  \/ JoinFetch
  \/ JoinSave
  \/ LeaveFetch
  \/ LeaveSave
  \/ Tick

SpecJoin == Init /\ [][NextJoin]_vars

SpecJoinSeq == InitSeq /\ [][NextJoin]_vars

NextCap ==
  \/ CreateEvent(JoinBodies)
  \/ JoinFetch
  \/ JoinSave
  \/ LeaveFetch
  \/ LeaveSave
  \/ UpdateFetch(CapPatches)
  \/ UpdateSave
  \/ Tick

SpecCapSeq == InitSeq /\ [][NextCap]_vars

NextOwner ==
  \/ CreateEvent(EventBodies)
  \/ UpdateFetch(OrgPatches)
  \/ UpdateSave
  \/ DeleteEvent
  \/ Tick

SpecOwner == Init /\ [][NextOwner]_vars

SpecOwnerSeq == InitSeq /\ [][NextOwner]_vars

NextSession ==
  \/ CreateEvent(SessionBodies)
  \/ AddSessionFetch(SessionInputs)
  \/ AddSessionSave
  \/ UpdateSessionFetch(SessionPatches)
  \/ UpdateSessionSave
  \/ RemoveSessionFetch
  \/ RemoveSessionSave
  \/ Tick

SpecSessionSeq == InitSeq /\ [][NextSession]_vars

NextFrame ==
  \/ CreateEvent(FrameBodies)
  \/ JoinFetch
  \/ JoinSave
  \/ LeaveFetch
  \/ LeaveSave
  \/ Tick

SpecFrameSeq == InitSeq /\ [][NextFrame]_vars

----------------------------------------------------------------------------
(* Vocabulary of the properties *)

DistinctUsers(ps) ==
  \A i, j \in 1..Len(ps) : i # j => ps[i].userId # ps[j].userId

AtCapacity(e) == e.capacity > 0 /\ Len(e.participants) >= e.capacity

\* this step answered a join of u on e from the document it fetched
JoinAnswered(e, u) ==
  /\ resp'.op = "join"
  /\ resp'.caller = u
  /\ resp'.target = e._id
  /\ UNCHANGED inflight

\* this step fetched e for a join of u and went on to save
JoinAccepted(e, u) ==
  inflight' = inflight (+) SetToBag({Request("join", u, e, 0, NoBody)})

\* this step is the save of the in-flight request r
Completes(r) == inflight' = inflight (-) SetToBag({r})

----------------------------------------------------------------------------
(* Membership *)

\* C1: joins of distinct callers, however their fetches, checks and saves
\* interleave, never leave an Event of capacity N > 0 with more than N participants.
C1_ConcurrentJoinsWithinCapacity ==
  \A e \in events :
    (e.capacity > 0 /\ DistinctUsers(e.participants)) => Len(e.participants) <= e.capacity

\* C3: no two Participants of an Event share a userId, under any interleaving of
\* joins and leaves.
C3_NoDuplicateUserId ==
  \A e \in events : DistinctUsers(e.participants)

\* C4: a join of a non-member is answered "Event is full" exactly when capacity > 0
\* and the roster has reached it; an Event of capacity 0 is never full.
C4_EventFullIffAtCapacity ==
  [][\A e \in events, u \in Users :
       ~alreadyJoined(e, u) =>
         /\ JoinAnswered(e, u) => (resp'.error = "Event is full" /\ AtCapacity(e))
         /\ JoinAccepted(e, u) => ~AtCapacity(e)]_vars

\* C5: with requests one at a time, on an Event of capacity N > 0 a join of a
\* non-member below capacity succeeds, appends the caller and reports the count
\* before plus one (so the i-th of N joins on an empty roster reports i); at
\* capacity it is answered "Event is full" and changes nothing.
C5_SequentialJoinsFillCapacity ==
  [][\A e \in events, u \in Users :
       (e.capacity > 0 /\ ~alreadyJoined(e, u)) =>
         /\ Len(e.participants) < e.capacity => ~JoinAnswered(e, u)
         /\ Len(e.participants) >= e.capacity =>
              /\ ~JoinAccepted(e, u)
              /\ JoinAnswered(e, u) =>
                   /\ resp'.status = 400
                   /\ resp'.error = "Event is full"
                   /\ UNCHANGED events
         /\ \A r \in BagToSet(inflight) :
              (r.op = "join" /\ r.caller = u /\ r.doc = e /\ Completes(r)) =>
                /\ resp'.status = 200
                /\ resp'.count = Len(e.participants) + 1
                /\ resp'.count <= e.capacity
                /\ events' = {[e EXCEPT !.participants = Append(@, NewParticipant(u, r.at)),
                                        !.updatedAt = now,
                                        !.__v = @ + 1]}]_vars

\* C5 witness: an Event of capacity MaxCap holds MaxCap distinct participants and
\* the next join, of a non-member, was answered "Event is full".
C5_FullAfterNJoins ==
  /\ resp.op = "join"
  /\ resp.error = "Event is full"
  /\ \E e \in events :
       /\ e._id = resp.target
       /\ e.capacity = MaxCap
       /\ Len(e.participants) = MaxCap
       /\ DistinctUsers(e.participants)
       /\ ~alreadyJoined(e, resp.caller)

\* C6: a join of a caller who is in the roster is answered "Already joined this
\* event", also when the Event is at capacity, never goes on to save, and leaves
\* the persisted Event as it was.
C6_MemberJoinIsAlreadyMember ==
  [][\A e \in events, u \in Users :
       alreadyJoined(e, u) =>
         /\ ~JoinAccepted(e, u)
         /\ JoinAnswered(e, u) =>
              /\ resp'.status = 400
              /\ resp'.error = "Already joined this event"
              /\ UNCHANGED events]_vars

\* C6 witness: a member of an Event at capacity was answered "Already joined".
C6_MemberOfFullEventRejected ==
  /\ resp.op = "join"
  /\ resp.error = "Already joined this event"
  /\ \E e \in events :
       /\ e._id = resp.target
       /\ AtCapacity(e)
       /\ alreadyJoined(e, resp.caller)

\* C2: with requests one at a time, whatever createEvent, joinEvent, leaveEvent and
\* updateEvent have done, an Event of capacity > 0 holds at most capacity participants.
C2_RosterWithinCapacity ==
  \A e \in events : e.capacity > 0 => Len(e.participants) <= e.capacity

----------------------------------------------------------------------------
(* Ownership *)

\* C7: a deleteEvent of a caller who is not the Event's organizer is rejected and
\* the Event stays persisted.
C7_OnlyOrganizerDeletes ==
  [][\A e \in events :
       (resp'.op = "deleteEvent" /\ resp'.target = e._id /\ resp'.caller # e.organizerId) =>
         (resp'.status # 200 /\ e \in events')]_vars

\* C8: addSession, updateSession and removeSession of a caller who is not the
\* organizer of the Event (holding the Session) are answered 403, not authorized,
\* and leave the persisted Event as it was.
C8_NonOrganizerSessionOpsForbidden ==
  [][\A e \in events :
       LET addressed ==
             \/ resp'.op = "addSession" /\ resp'.target = e._id
             \/ resp'.op \in {"updateSession", "removeSession"} /\ HasSession(e, resp'.target)
       IN  (addressed /\ resp'.caller # e.organizerId) =>
             (resp'.status = 403 /\ UNCHANGED events)]_vars

\* C9: the organizerId of a persisted Event never changes.
C9_OrganizerNeverChanges ==
  [][\A e \in events, f \in events' :
       f._id = e._id => f.organizerId = e.organizerId]_vars

----------------------------------------------------------------------------
(* Sessions *)

\* C10: an updateSession of the organizer whose body, merged over a Session with
\* endTime >= startTime, gives endTime < startTime is answered 400, invalid input,
\* and leaves the persisted Event as it was.
C10_UpdateSessionRejectsEndBeforeStart ==
  [][\A r \in BagToSet(inflight) :
       (r.op = "updateSession" /\ Completes(r) /\ r.doc \in events
          /\ r.caller = r.doc.organizerId) =>
         LET old == r.doc.sessions[SessionIndex(r.doc, r.sid)]
             merged == Assigned(old, r.body)
         IN  (old.endTime >= old.startTime /\ merged.endTime < merged.startTime) =>
               (resp'.status = 400 /\ UNCHANGED events)]_vars

\* C11: every Session of a persisted Event has endTime >= startTime, however it
\* got there: in a creation's body, by addSession or by updateSession.
C11_SessionsEndAfterStart ==
  \A e \in events : \A i \in 1..Len(e.sessions) :
    e.sessions[i].endTime >= e.sessions[i].startTime

----------------------------------------------------------------------------
(* Dates and timestamps *)

\* C12: a persisted Event has endDate >= startDate, after createEvent and after
\* any updateEvent of its organizer.
C12_EventEndsAfterStart ==
  \A e \in events : e.endDate >= e.startDate

----------------------------------------------------------------------------
(* Leaving *)

\* the user ids of a roster, in its order
UserIdsOf(ps) == [i \in 1..Len(ps) |-> ps[i].userId]

\* C13: with requests one at a time, a leave succeeds; of a caller who is not in
\* the roster it reports the count as it was and leaves the roster as it was, and
\* after any leave the caller is not in the roster (so a second leave of the same
\* caller finds nothing to remove and gives the same roster as the first).
C13_LeaveIsIdempotent ==
  [][\A r \in BagToSet(inflight) :
       (r.op = "leave" /\ Completes(r) /\ r.doc \in events) =>
         /\ resp'.op = "leave"
         /\ resp'.status = 200
         /\ \E f \in events' :
              /\ f._id = r.doc._id
              /\ resp'.count = Len(f.participants)
              /\ ~alreadyJoined(f, r.caller)
              /\ ~alreadyJoined(r.doc, r.caller) =>
                   /\ f.participants = r.doc.participants
                   /\ resp'.count = Len(r.doc.participants)]_vars

\* C13 witness: a caller who never joined left an Event that holds a participant:
\* one join and no removal have been saved (__v = 1), and the leave reported 1.
C13_NonMemberLeft ==
  /\ resp.op = "leave"
  /\ resp.status = 200
  /\ resp.count = 1
  /\ \E e \in events :
       /\ e._id = resp.target
       /\ e.__v = 1
       /\ Len(e.participants) = 1
       /\ ~alreadyJoined(e, resp.caller)

\* C14: with requests one at a time, a leave of a participant of an Event at its
\* capacity N > 0 brings the count to N - 1; a join of a non-member of an Event
\* one below its capacity is not turned away, is saved and brings the count to N.
C14_FreedCapacityIsReusable ==
  [][/\ \A r \in BagToSet(inflight) :
          (Completes(r) /\ r.doc \in events /\ r.doc.capacity > 0
             /\ DistinctUsers(r.doc.participants)) =>
            /\ (r.op = "leave" /\ alreadyJoined(r.doc, r.caller)
                  /\ Len(r.doc.participants) = r.doc.capacity) =>
                 /\ resp'.status = 200
                 /\ resp'.count = r.doc.capacity - 1
                 /\ \A f \in events' : Len(f.participants) = r.doc.capacity - 1
            /\ (r.op = "join" /\ Len(r.doc.participants) = r.doc.capacity - 1) =>
                 /\ resp'.status = 200
                 /\ resp'.count = r.doc.capacity
                 /\ \A f \in events' : Len(f.participants) = r.doc.capacity
     /\ \A e \in events, u \in Users :
          (e.capacity > 0 /\ DistinctUsers(e.participants) /\ ~alreadyJoined(e, u)
             /\ Len(e.participants) = e.capacity - 1) =>
            ~JoinAnswered(e, u)]_vars

\* C14 witness: on an Event of capacity 1 a join, a leave and a join have been
\* saved (__v = 3): the last join reported 1 and its caller holds the only place.
C14_PlaceTakenAgain ==
  /\ resp.op = "join"
  /\ resp.status = 200
  /\ resp.count = 1
  /\ \E e \in events :
       /\ e._id = resp.target
       /\ e.capacity = 1
       /\ e.__v = 3
       /\ UserIdsOf(e.participants) = <<resp.caller>>

----------------------------------------------------------------------------
(* Session identity *)

\* the identifiers of an Event's Sessions, in their order
SessionIdsOf(e) == [i \in 1..Len(e.sessions) |-> e.sessions[i]._id]

\* C15: a step that answers an updateSession, whatever its patch body holds,
\* leaves the identifier of every Session of the Event as it was, so the
\* identifiers stay the ones addSession assigned.
C15_UpdateSessionKeepsIdentifiers ==
  [][resp'.op = "updateSession" =>
       \A e \in events : \A f \in events' :
         f._id = e._id => SessionIdsOf(f) = SessionIdsOf(e)]_vars

----------------------------------------------------------------------------
(* Ownership of updateEvent under overlapping requests *)

\* C16: an updateEvent of a caller who is not the Event's organizerId is never
\* taken up, and when an updateEvent's write is carried out by a caller who is not
\* the organizerId of the persisted Event at that moment, it is not answered 200
\* and the persisted Event stays as it is, however the lookup and the write
\* interleave with other requests on the Event.
C16_UpdateEventOrganizerOnly ==
  [][/\ \A r \in BagToSet(inflight') :
          (r.op = "updateEvent" /\ ~BagIn(r, inflight)) => r.doc.organizerId = r.caller
     /\ \A r \in BagToSet(inflight) :
          (r.op = "updateEvent" /\ Completes(r)) =>
            \A e \in events :
              (e._id = r.doc._id /\ e.organizerId # r.caller) =>
                /\ resp'.status # 200
                /\ events' = events]_vars

----------------------------------------------------------------------------
(* Removing a Session *)

DistinctSessionIds(e) ==
  \A i, j \in 1..Len(e.sessions) : e.sessions[i]._id = e.sessions[j]._id => i = j

\* C17: with requests one at a time, a removeSession of the organizer succeeds
\* and the Event's Sessions afterwards are the Sessions before without those of
\* the named identifier, every other Session with its fields and in its order;
\* with pairwise distinct identifiers exactly one Session goes.
C17_RemoveSessionRemovesExactlyThat ==
  [][\A r \in BagToSet(inflight) :
       (r.op = "removeSession" /\ Completes(r)) =>
         \A e \in events :
           e._id = r.doc._id =>
             /\ resp'.op = "removeSession"
             /\ resp'.status = 200
             /\ \E f \in events' :
                  /\ f._id = e._id
                  /\ f.sessions = SelectSeq(e.sessions, LAMBDA s : s._id # r.sid)
                  /\ DistinctSessionIds(e) => Len(f.sessions) = Len(e.sessions) - 1]_vars

\* C17 witness: an Event created without Sessions got Sessions 1 and 2 by
\* addSession and lost Session 1 by removeSession (__v = 3): Session 2 is the
\* one that is left.
C17_SecondSessionLeft ==
  /\ resp.op = "removeSession"
  /\ resp.status = 200
  /\ resp.target = 1
  /\ \E e \in events :
       /\ e.__v = 3
       /\ SessionIdsOf(e) = <<2>>
       /\ e.sessions[1].title = "S2"

----------------------------------------------------------------------------
(* Timestamps *)

\* C18: the clock never runs backwards; every step keeps each persisted Event's
\* createdAt and does not lower its updatedAt, and in every state reached
\* updatedAt >= createdAt.
C18_TimestampsMonotone ==
  [][/\ now' >= now
     /\ \A e \in events : \A f \in events' :
          f._id = e._id =>
            /\ f.createdAt = e.createdAt
            /\ f.updatedAt >= e.updatedAt
            /\ f.updatedAt >= f.createdAt]_vars

----------------------------------------------------------------------------
(* Acknowledged membership changes under overlapping requests *)

\* C19: under every interleaving of joins and leaves, a user enters a roster
\* only in the step that answers the user's own join with 200 and goes out of it
\* only in the step that answers the user's own leave with 200; a join answered
\* 200 has its caller in the persisted roster, and a leave answered 200 of a
\* caller who was in the fetched roster has the caller out of it. So an
\* acknowledged join is not undone, and an acknowledged leave is not reverted,
\* by the write of another request.
C19_NoLostMembershipChange ==
  [][/\ \A e \in events : \A f \in events' : \A u \in Users :
          f._id = e._id =>
            /\ (alreadyJoined(e, u) /\ ~alreadyJoined(f, u)) =>
                 resp' = Reply("leave", u, e._id, 200, "", resp'.count)
            /\ (~alreadyJoined(e, u) /\ alreadyJoined(f, u)) =>
                 resp' = Reply("join", u, e._id, 200, "", resp'.count)
     /\ \A e \in events : \E f \in events' : f._id = e._id
     /\ \A r \in BagToSet(inflight) :
          (Completes(r) /\ resp'.status = 200) =>
            /\ r.op = "join" =>
                 \E f \in events' : f._id = r.doc._id /\ alreadyJoined(f, r.caller)
            /\ (r.op = "leave" /\ alreadyJoined(r.doc, r.caller)) =>
                 \E f \in events' : f._id = r.doc._id /\ ~alreadyJoined(f, r.caller)]_vars

\* C19 witness: a leave that was fetched before another user's join was saved
\* has been refused (500), and the roster holds both the joiner and the caller.
C19_StaleLeaveRefused ==
  /\ resp.op = "leave"
  /\ resp.status = 500
  /\ \E e \in events : \E u \in Users :
       /\ e._id = resp.target
       /\ u # resp.caller
       /\ alreadyJoined(e, u)
       /\ alreadyJoined(e, resp.caller)

----------------------------------------------------------------------------
(* What a join and a leave change *)

\* the fields of an Event that a join or a leave may write: the roster, the
\* timestamp of the save and the document version
RosterFields == {"participants", "updatedAt", "__v"}

\* C20: with requests one at a time, a join or a leave keeps every field of
\* the Event other than the roster, updatedAt and the document version (the
\* Sessions, capacity and organizerId among them); a join answered 200 appends
\* one Participant of the caller after the others, which stay as they were and
\* in their order; a leave answered 200 leaves the roster without the entries of
\* the caller and the others as they were and in their order; a request that is
\* not answered 200 changes nothing.
C20_JoinLeaveChangeOnlyOwnEntry ==
  [][\A r \in BagToSet(inflight) :
       (Completes(r) /\ r.op \in {"join", "leave"}) =>
         \A e \in events :
           e._id = r.doc._id =>
             \E f \in events' :
               /\ f._id = e._id
               /\ \A k \in (DOMAIN e) \ RosterFields : f[k] = e[k]
               /\ f.updatedAt >= e.updatedAt
               /\ (r.op = "join" /\ resp'.status = 200) =>
                    /\ Len(f.participants) = Len(e.participants) + 1
                    /\ SubSeq(f.participants, 1, Len(e.participants)) = e.participants
                    /\ f.participants[Len(f.participants)].userId = r.caller
               /\ (r.op = "leave" /\ resp'.status = 200) =>
                    f.participants = SelectSeq(e.participants, LAMBDA p : p.userId # r.caller)
               /\ resp'.status # 200 => f = e]_vars

\* C20 witness: on an Event with a Session and capacity 2, two users joined and
\* the first of them left (__v = 3): the other is the roster, the Session is
\* there.
C20_OtherEntryKept ==
  /\ resp.op = "leave"
  /\ resp.status = 200
  /\ resp.count = 1
  /\ \E e \in events :
       /\ e._id = resp.target
       /\ e.__v = 3
       /\ e.capacity = 2
       /\ Len(e.sessions) = 1
       /\ Len(e.participants) = 1
       /\ ~alreadyJoined(e, resp.caller)

====
